---- MODULE Spec2Model ----
(***************************************************************************)
(* Hierarchical state machine extension (transitions/extensions/nesting.py) *)
(* NestedState, NestedTransition, NestedEvent and HierarchicalMachine as a  *)
(* state machine over a heap of NestedState objects.                        *)
(*                                                                          *)
(* Names are kept as the sequence of their separator-free segments:         *)
(* 'A.B' is <<"A", "B">>, and joining with NestedState.separator is         *)
(* concatenation of the segment sequences.                                  *)
(***************************************************************************)
EXTENDS Integers, Sequences, FiniteSets, TLC

VARIABLES
    heap,          \* the NestedState objects: object id -> [lname, parent, ignore]
    machines,      \* machine id -> the HierarchicalMachine object
    added,         \* the state specifications given to add_states so far
    pc,            \* position of the running trigger call ("idle": none)
    event,         \* the EventData of the running call
    tmp,           \* NestedEvent.trigger: the node the ancestor walk stopped at
    idx,           \* NestedEvent.trigger: position of the for loop
    source_state,  \* NestedTransition._change_state: local source_state
    dest_state,    \* NestedTransition._change_state: local dest_state
    self_,         \* exit_nested: self of the innermost frame
    target_state,  \* exit_nested: target_state of the innermost frame
    tmp_state,     \* exit_nested: local tmp_state
    tmp_self,      \* exit_nested: local tmp_self
    lvl,           \* _change_state: local lvl (value returned by exit_nested)
    stack,         \* enter_nested: self of the open frames, innermost last
    hooks,         \* hook calls and pointer writes of the running / last call
    checked,       \* transitions whose execute() was called in this call
    result         \* outcome of the last call

vars == <<heap, machines, added, pc, event, tmp, idx, source_state, dest_state, self_,
          target_state, tmp_state, tmp_self, lvl, stack, hooks, checked,
          result>>

(***************************************************************************)
(* Bounds of the model                                                      *)
(***************************************************************************)
\* number of add_transition calls made on the machine after construction
MaxTransitions == 2

(***************************************************************************)
(* Python values                                                            *)
(***************************************************************************)
\* Python None, for object references (object ids start at 1)
None == 0

\* the literal '*' accepted as a transition source
Star == <<"*">>

\* LET x == v IN Body(x), the value v being computed once
Let(v, Body(_)) == CHOOSE out \in {Body(x) : x \in {v}} : TRUE

\* ordered dictionaries: sequences of [key, val] in insertion order
EmptyDict == <<>>

Has(d, k) == \E i \in 1..Len(d) : d[i].key = k

Get(d, k) == d[CHOOSE i \in 1..Len(d) : d[i].key = k].val

Put(d, k, v) ==
    IF Has(d, k)
    THEN [i \in 1..Len(d) |-> IF d[i].key = k THEN [key |-> k, val |-> v] ELSE d[i]]
    ELSE Append(d, [key |-> k, val |-> v])

Keys(d) == [i \in 1..Len(d) |-> d[i].key]

Values(d) == [i \in 1..Len(d) |-> d[i].val]

\* collections.defaultdict(list).__getitem__: a missing key is inserted with []
GetDefault(d, k) == IF Has(d, k) THEN d ELSE Put(d, k, <<>>)

(***************************************************************************)
(* NestedState                                                              *)
(***************************************************************************)
NestedState(name_, ignore_invalid_triggers, parent) ==
    [lname |-> name_, parent |-> parent, ignore |-> ignore_invalid_triggers]

RECURSIVE level(_, _)
level(h, n) == IF h[n].parent # None THEN level(h, h[n].parent) + 1 ELSE 0

RECURSIVE name(_, _)
name(h, n) == IF h[n].parent # None THEN name(h, h[n].parent) \o h[n].lname
              ELSE h[n].lname

(***************************************************************************)
(* State specifications accepted by add_states / traverse                   *)
(***************************************************************************)
\* a bare name
Str(n) == [kind |-> "str", name |-> <<n>>, hasIgnore |-> FALSE, ignore |-> FALSE,
           hasChildren |-> FALSE, children |-> <<>>, remap |-> EmptyDict,
           machine |-> "", obj |-> None]

\* a dict without 'children'
Leaf(n, hasIgnore, ignore) ==
    [Str(n) EXCEPT !.kind = "dict", !.hasIgnore = hasIgnore, !.ignore = ignore]

\* a dict with 'children' (and 'remap')
Composite(n, children, remap) ==
    [Str(n) EXCEPT !.kind = "dict", !.hasChildren = TRUE, !.children = children,
                   !.remap = remap]

\* a HierarchicalMachine instance
Embedded(m) == [Str("") EXCEPT !.kind = "machine", !.machine = m]

\* an already constructed NestedState
Built(obj) == [Str("") EXCEPT !.kind = "node", !.obj = obj]

(***************************************************************************)
(* Triggers: [to |-> whether the name starts with 'to_', path |-> the       *)
(* segments of the rest of the name]                                        *)
(***************************************************************************)
Trig(n) == [to |-> FALSE, path |-> <<n>>]

ToTrig(path) == [to |-> TRUE, path |-> path]

(***************************************************************************)
(* Machine (flat engine), as the nesting extension uses it                  *)
(***************************************************************************)
\* self.model: the attributes set for plain triggers, the FunctionWrapper
\* trees set as to_<name>, every node under the path of attribute names that
\* leads to it with its _func, and whether the last add_transition raised
NewModel == [plain |-> EmptyDict, to |-> EmptyDict, raised |-> FALSE]

\* HierarchicalMachine.__init__ with no states
NewMachine(ignore_invalid_triggers) ==
    [states |-> EmptyDict, events |-> EmptyDict, current_state |-> None,
     ignore_invalid_triggers |-> ignore_invalid_triggers,
     buffered_transitions |-> <<>>, model |-> NewModel]

\* Machine.add_states on constructed states: self.states[state.name] = state
RECURSIVE register(_, _, _, _)
register(states, h, objs, i) ==
    IF i > Len(objs) THEN states
    ELSE Let(Put(states, name(h, objs[i]), objs[i]),
             LAMBDA put : register(put, h, objs, i + 1))

\* Transition(source, dest, conditions)
Transition(source, dest, conditions) ==
    [source |-> source, dest |-> dest, conditions |-> conditions]

\* Event.add_transition: self.transitions[transition.source].append(transition)
Event_add_transition(transitions, t) ==
    Put(transitions, t.source,
        Append(IF Has(transitions, t.source) THEN Get(transitions, t.source) ELSE <<>>, t))

RECURSIVE add_all(_, _, _, _, _)
add_all(transitions, sources, i, dest, conditions) ==
    IF i > Len(sources) THEN transitions
    ELSE Let(Event_add_transition(transitions,
                                  Transition(sources[i], dest, conditions)),
             LAMBDA more : add_all(more, sources, i + 1, dest, conditions))

(***************************************************************************)
(* FunctionWrapper                                                          *)
(***************************************************************************)
\* _func of a wrapper that holds no callable: None
NoFunc == [to |-> FALSE, path |-> <<>>]

\* name[0].isdigit(), for the names in use
isdigit(n) == n \in {"1", "2"}

\* '_' + name, for the names in use that start with a digit
underscore(n) == CASE n = "1" -> "_1" [] n = "2" -> "_2"

\* the attributes every FunctionWrapper has from its class, among the names
\* in use
ClassAttributes == {"add"}

\* hasattr(self, name) for the wrapper at attribute path at
hasattr(nodes, at, n) == Has(nodes, Append(at, n)) \/ n \in ClassAttributes

\* lines 25-26: getattr(self, name) is a wrapper, and add goes on in it
add_descends(nodes, at, n) == Has(nodes, Append(at, n))

RECURSIVE FunctionWrapper(_, _, _, _)
RECURSIVE FunctionWrapper_add(_, _, _, _)
\* FunctionWrapper(func, path) for the object that becomes the attribute at:
\* returns [nodes, raised]
FunctionWrapper(nodes, at, func, path) ==
    IF Len(path) > 0
    THEN Let(FunctionWrapper_add(nodes, at, func, path),
             LAMBDA r : IF r.raised THEN r
                        ELSE [nodes |-> Put(r.nodes, at, NoFunc), raised |-> FALSE])
    ELSE [nodes |-> Put(nodes, at, func), raised |-> FALSE]

\* FunctionWrapper.add(func, path) on the wrapper at attribute path at; a
\* class attribute found under the name has no add: AttributeError
FunctionWrapper_add(nodes, at, func, path) ==
    IF Len(path) > 0
    THEN LET n == IF isdigit(path[1]) THEN underscore(path[1]) ELSE path[1]
         IN IF hasattr(nodes, at, n)
            THEN IF add_descends(nodes, at, n)
                 THEN FunctionWrapper_add(nodes, Append(at, n), func, Tail(path))
                 ELSE [nodes |-> nodes, raised |-> TRUE]
            ELSE FunctionWrapper(nodes, Append(at, n), func, Tail(path))
    ELSE [nodes |-> Put(nodes, at, func), raised |-> FALSE]

\* lines 221-230: the attribute of the model for a new trigger
bind(model, trigger) ==
    IF trigger.to
    THEN Let(IF Has(model.to, <<trigger.path[1]>>)
             THEN FunctionWrapper_add(model.to, <<trigger.path[1]>>, trigger,
                                      Tail(trigger.path))
             ELSE FunctionWrapper(model.to, <<trigger.path[1]>>, trigger,
                                  Tail(trigger.path)),
             LAMBDA r : [model EXCEPT !.to = r.nodes, !.raised = r.raised])
    ELSE [model EXCEPT !.plain = Put(@, trigger, trigger), !.raised = FALSE]

\* lines 219-232 for the list of sources: a new trigger gets its event and
\* its attribute, then the transitions are added; an exception raised for
\* the attribute leaves the event without them
add_from(M, trigger, sources, dest, conditions) ==
    IF Has(M.events, trigger)
    THEN [M EXCEPT !.events = Put(@, trigger,
                                  add_all(Get(@, trigger), sources, 1, dest, conditions)),
                   !.model.raised = FALSE]
    ELSE Let(bind(M.model, trigger),
             LAMBDA model :
                IF model.raised
                THEN [M EXCEPT !.events = Put(@, trigger, EmptyDict), !.model = model]
                ELSE [M EXCEPT !.events = Put(@, trigger,
                                              add_all(EmptyDict, sources, 1, dest,
                                                      conditions)),
                               !.model = model])

\* the source taken as one name, '*' included
add_transition_literal(M, h, trigger, source, dest, conditions) ==
    add_from(M, trigger, <<source>>, dest, conditions)

\* line 217: [x.name for x in self.states.values()], the names the state
\* objects have now, whatever keys they are registered under
names(h, M) == [i \in 1..Len(M.states) |-> name(h, M.states[i].val)]

\* HierarchicalMachine.add_transition on machine record M
add_transition(M, h, trigger, source, dest, conditions) ==
    add_from(M, trigger,
             IF source = Star THEN names(h, M) ELSE <<source>>,
             dest, conditions)

(***************************************************************************)
(* HierarchicalMachine.traverse                                             *)
(***************************************************************************)
\* the root states of the embedded machine that are re-parented:
\* [s for s in state.states.values() if s.level == 0 and s.name not in remap]
embedded_roots(h, X, remap) ==
    SelectSeq(Values(X.states),
              LAMBDA s : level(h, s) = 0 /\ ~Has(remap, name(h, s)))

\* for s in new_states: s.parent = parent
reparent(h, objs, parent) ==
    [n \in 1..Len(h) |->
        IF \E i \in 1..Len(objs) : objs[i] = n
        THEN [h[n] EXCEPT !.parent = parent] ELSE h[n]]

\* the trigger under which an embedded machine's event is re-registered
embedded_trigger(h, parent, trigger) ==
    IF trigger.to THEN ToTrig(name(h, parent) \o trigger.path) ELSE trigger

\* the remap table left out of the destination
buffered_record_prefixed(h, parent, remap, trigger, transition) ==
    [trigger |-> embedded_trigger(h, parent, trigger),
     source |-> name(h, parent) \o transition.source,
     dest |-> name(h, parent) \o transition.dest,
     conditions |-> transition.conditions]

\* the record buffered for one transition of an embedded machine
buffered_record(h, parent, remap, trigger, transition) ==
    [trigger |-> embedded_trigger(h, parent, trigger),
     source |-> name(h, parent) \o transition.source,
     dest |-> IF ~Has(remap, transition.dest)
              THEN name(h, parent) \o transition.dest
              ELSE Get(remap, transition.dest),
     conditions |-> transition.conditions]

\* the three nested loops over state.events / event.transitions / transitions
RECURSIVE buffer_transitions(_, _, _, _, _, _, _, _)
buffer_transitions(buf, h, parent, remap, events, e, k, j) ==
    IF e > Len(events) THEN buf
    ELSE IF k > Len(events[e].val)
    THEN buffer_transitions(buf, h, parent, remap, events, e + 1, 1, 1)
    ELSE IF j > Len(events[e].val[k].val)
    THEN buffer_transitions(buf, h, parent, remap, events, e, k + 1, 1)
    ELSE Let(Append(buf, buffered_record(h, parent, remap, events[e].key,
                                         events[e].val[k].val[j])),
             LAMBDA appended :
                buffer_transitions(appended, h, parent, remap, events, e, k, j + 1))

(***************************************************************************)
(* copy.deepcopy(state) of a dict state specification: every object it      *)
(* holds (embedded machines with their states, constructed states, and the  *)
(* parents of these) is copied once                                         *)
(***************************************************************************)
\* the objects reachable from object n through parent
RECURSIVE chain(_, _)
chain(h, n) == IF n = None THEN {} ELSE {n} \cup chain(h, h[n].parent)

\* the objects reachable from machine X
machine_objects(h, X) ==
    UNION {chain(h, X.states[i].val) : i \in 1..Len(X.states)}
        \cup chain(h, X.current_state)

\* the machines and the constructed states held by a list of specifications
RECURSIVE held_machines(_)
held_machines(states) ==
    UNION {IF states[i].kind = "machine" THEN {states[i].machine}
           ELSE held_machines(states[i].children) : i \in 1..Len(states)}

RECURSIVE held_states(_)
held_states(states) ==
    UNION {IF states[i].kind = "node" THEN {states[i].obj}
           ELSE held_states(states[i].children) : i \in 1..Len(states)}

\* the copy of object o, the objects S being copied onto the end of heap h
copy_of(h, S, o) ==
    IF o \in S THEN Len(h) + Cardinality({x \in S : x <= o}) ELSE o

copy_objects(h, S) ==
    h \o [i \in 1..Cardinality(S) |->
            LET o == CHOOSE x \in S : Cardinality({y \in S : y <= x}) = i
            IN [h[o] EXCEPT !.parent = copy_of(h, S, @)]]

copy_machine(h, S, X) ==
    [X EXCEPT !.states = [i \in 1..Len(X.states) |->
                            [key |-> X.states[i].key,
                             val |-> copy_of(h, S, X.states[i].val)]],
              !.current_state = copy_of(h, S, @)]

RECURSIVE copy_states(_, _, _)
copy_states(h, S, states) ==
    [i \in 1..Len(states) |->
        [states[i] EXCEPT !.obj = copy_of(h, S, @),
                          !.children = copy_states(h, S, @)]]

\* the specification used as it is, without a copy
deepcopy_shares(h, ms, state) == [heap |-> h, machines |-> ms, state |-> state]

\* deepcopy returns [heap, machines, state]
deepcopy(h, ms, state) ==
    Let(held_machines(state.children),
        LAMBDA held :
           Let(UNION {machine_objects(h, ms[m]) : m \in held}
                   \cup UNION {chain(h, o) : o \in held_states(state.children)},
               LAMBDA S :
                  [heap |-> copy_objects(h, S),
                   machines |-> [m \in DOMAIN ms |->
                                    IF m \in held THEN copy_machine(h, S, ms[m])
                                    ELSE ms[m]],
                   state |-> [state EXCEPT !.children = copy_states(h, S, @)]]))

\* traverse returns [heap, buffered, new_states]: the heap with the objects it
\* built or re-parented, self._buffered_transitions, and the returned list
RECURSIVE traverse(_, _, _, _, _, _, _)
RECURSIVE traverse_loop(_, _, _, _, _, _, _, _, _)
traverse_loop(h, ms, buf, states, ignore, parent, remap, i, new_states) ==
    IF i > Len(states)
    THEN [heap |-> h, buffered |-> buf, new_states |-> new_states]
    ELSE LET state == states[i]
         IN
         CASE state.kind = "str" ->
                IF Has(remap, state.name)
                THEN traverse_loop(h, ms, buf, states, ignore, parent, remap,
                                   i + 1, new_states)
                ELSE Let(Append(h, NestedState(state.name, ignore, parent)),
                         LAMBDA h1 :
                            traverse_loop(h1, ms, buf, states, ignore, parent, remap,
                                          i + 1, Append(new_states, Len(h1))))
           [] state.kind = "dict" ->
                \* state = copy.deepcopy(state): the machines and states held by
                \* the dict are copies from here on
                Let(deepcopy(h, ms, state),
                    LAMBDA c :
                       IF c.state.hasChildren
                       THEN Let(traverse(
                                   Append(c.heap, NestedState(c.state.name, ignore, parent)),
                                   c.machines, buf, c.state.children, ignore,
                                   Len(c.heap) + 1, c.state.remap),
                                LAMBDA r :
                                   traverse_loop(
                                       r.heap, ms, r.buffered, states, ignore, parent,
                                       remap, i + 1,
                                       new_states \o <<Len(c.heap) + 1>> \o r.new_states))
                       ELSE Let(Append(c.heap,
                                       NestedState(c.state.name,
                                                   IF c.state.hasIgnore
                                                   THEN c.state.ignore ELSE ignore,
                                                   parent)),
                                LAMBDA h1 :
                                   traverse_loop(h1, ms, buf, states, ignore, parent,
                                                 remap, i + 1,
                                                 Append(new_states, Len(h1)))))
           [] state.kind = "machine" ->
                \* new_states is rebound to the embedded roots, which are then
                \* appended to it once more through tmp_states
                Let(embedded_roots(h, ms[state.machine], remap),
                    LAMBDA roots :
                       Let([heap |-> reparent(h, roots, parent),
                            buffered |-> buffer_transitions(
                                            buf, h, parent, remap,
                                            ms[state.machine].events, 1, 1, 1)],
                           LAMBDA r :
                              traverse_loop(r.heap, ms, r.buffered, states, ignore,
                                            parent, remap, i + 1, roots \o roots)))
           [] state.kind = "node" ->
                traverse_loop(h, ms, buf, states, ignore, parent, remap, i + 1,
                              Append(new_states, state.obj))

traverse(h, ms, buf, states, ignore, parent, remap) ==
    traverse_loop(h, ms, buf, states, ignore, parent, remap, 1, <<>>)

(***************************************************************************)
(* HierarchicalMachine.add_states                                           *)
(***************************************************************************)
\* while len(self._buffered_transitions) > 0: add_transition(**pop()); an
\* exception raised by add_transition ends the loop
RECURSIVE flush(_, _)
flush(M, h) ==
    IF Len(M.buffered_transitions) = 0 THEN M
    ELSE LET n == Len(M.buffered_transitions)
             args == M.buffered_transitions[n]
         IN Let(add_transition(
                    [M EXCEPT !.buffered_transitions = SubSeq(@, 1, n - 1)],
                    h, args.trigger, args.source, args.dest, args.conditions),
                LAMBDA M1 : IF M1.model.raised THEN M1 ELSE flush(M1, h))

\* add_states returns [heap, machine]
add_states(h, ms, m, states) ==
    Let(traverse(h, ms, ms[m].buffered_transitions, states,
                 ms[m].ignore_invalid_triggers, None, EmptyDict),
        LAMBDA r :
           [heap |-> r.heap,
            machine |-> Let([ms[m] EXCEPT
                                !.states = register(@, r.heap, r.new_states, 1),
                                !.buffered_transitions = r.buffered],
                            LAMBDA M1 : flush(M1, r.heap))])

\* Machine.get_state: the registered object, None standing for the ValueError
get_state(M, state) == IF Has(M.states, state) THEN Get(M.states, state) ELSE None

(***************************************************************************)
(* A trigger call: NestedEvent.trigger, Transition.execute,                 *)
(* NestedTransition._change_state, NestedState.exit_nested / enter_nested   *)
(***************************************************************************)
\* level=None of enter_nested
NoLevel == -1

NoTransition == Transition(<<>>, <<>>, <<>>)

\* EventData(state, event, machine, model): state is the machine's current
\* state when the event was triggered
EventData(state, trigger, m) ==
    [state |-> state, event |-> trigger, machine |-> m, transition |-> NoTransition]

NoEvent == EventData(None, Trig(""), "")

Hook(kind, state) == [kind |-> kind, state |-> state]

\* the machine of the running call
Machine == machines[event.machine]

\* self.transitions of the NestedEvent of the running call
transitions == Get(Machine.events, event.event)

\* the walk left out: the trigger is looked up on the current state only
walk_self(h, trans, n) == n

\* while tmp.parent and tmp.name not in self.transitions: tmp = tmp.parent
RECURSIVE walk(_, _, _)
walk(h, trans, n) ==
    IF h[n].parent # None /\ ~Has(trans, name(h, n))
    THEN walk(h, trans, h[n].parent)
    ELSE n

\* lines 104-106: the call starts and walks up the ancestors of the current state
Trigger(m, trigger) ==
    /\ pc = "idle"
    /\ machines[m].current_state # None
    /\ Has(machines[m].events, trigger)
    /\ event' = EventData(machines[m].current_state, trigger, m)
    /\ tmp' = walk(heap, Get(machines[m].events, trigger), machines[m].current_state)
    /\ pc' = "walked"
    /\ idx' = 0
    /\ source_state' = None /\ dest_state' = None
    /\ self_' = None /\ target_state' = None /\ tmp_state' = None /\ tmp_self' = None
    /\ lvl' = NoLevel /\ stack' = <<>>
    /\ hooks' = <<>> /\ checked' = <<>> /\ result' = "None"
    /\ UNCHANGED <<heap, machines, added>>

\* the flag read from the node the walk ended on instead of the current state
ignores_tmp(h, M, t) == h[t].ignore

\* line 110: self.machine.current_state.ignore_invalid_triggers
ignores(h, M, t) == h[M.current_state].ignore

\* lines 107-113, else branch: raise MachineError
RaiseMachineError ==
    /\ pc = "walked"
    /\ ~Has(transitions, name(heap, tmp))
    /\ ~ignores(heap, Machine, tmp)
    /\ result' = "MachineError"
    /\ pc' = "idle"
    /\ UNCHANGED <<heap, machines, added, event, tmp, idx, source_state, dest_state, self_,
                   target_state, tmp_state, tmp_self, lvl, stack, hooks, checked>>

\* lines 107-111: logger.warning, and the call goes on to line 114
Warn ==
    /\ pc = "walked"
    /\ ~Has(transitions, name(heap, tmp))
    /\ ignores(heap, Machine, tmp)
    /\ hooks' = Append(hooks, Hook("warning", Machine.current_state))
    /\ pc' = "valid"
    /\ UNCHANGED <<heap, machines, added, event, tmp, idx, source_state, dest_state, self_,
                   target_state, tmp_state, tmp_self, lvl, stack, checked, result>>

\* line 107, condition false
Valid ==
    /\ pc = "walked"
    /\ Has(transitions, name(heap, tmp))
    /\ pc' = "valid"
    /\ UNCHANGED <<heap, machines, added, event, tmp, idx, source_state, dest_state, self_,
                   target_state, tmp_state, tmp_self, lvl, stack, hooks, checked, result>>

\* self.transitions after the lookup self.transitions[tmp.name] of line 116
lookup(trans, key) == GetDefault(trans, key)

\* lines 114-116: the EventData is built and the for loop is entered
For ==
    /\ pc = "valid"
    /\ machines' = [machines EXCEPT ![event.machine].events =
                        Put(@, event.event, lookup(transitions, name(heap, tmp)))]
    /\ idx' = 1
    /\ pc' = "for"
    /\ UNCHANGED <<heap, added, event, tmp, source_state, dest_state, self_, target_state,
                   tmp_state, tmp_self, lvl, stack, hooks, checked, result>>

\* the list the for loop of line 116 iterates over
candidates == Get(transitions, name(heap, tmp))

\* the loop skipping the transition that follows a failed one
next_candidate_skips(i) == i + 2

\* the position the for loop moves to after the transition at position i
next_candidate(i) == i + 1

\* a failed last candidate handing the trigger on to the parent's transitions
ExecuteFailsThenParent ==
    /\ pc = "for"
    /\ idx <= Len(candidates)
    /\ Len(candidates[idx].conditions) > 0
    /\ event' = [event EXCEPT !.transition = candidates[idx]]
    /\ checked' = Append(checked, [index |-> idx, passed |-> FALSE])
    /\ IF /\ idx = Len(candidates)
          /\ heap[tmp].parent # None
          /\ Has(transitions, name(heap, heap[tmp].parent))
       THEN tmp' = heap[tmp].parent /\ idx' = 1
       ELSE tmp' = tmp /\ idx' = idx + 1
    /\ UNCHANGED <<heap, machines, added, pc, source_state, dest_state, self_,
                   target_state, tmp_state, tmp_self, lvl, stack, hooks, result>>

\* lines 117-118: t.execute(event) returns False, a condition did not hold
ExecuteFails ==
    /\ pc = "for"
    /\ idx <= Len(candidates)
    /\ Len(candidates[idx].conditions) > 0
    /\ event' = [event EXCEPT !.transition = candidates[idx]]
    /\ checked' = Append(checked, [index |-> idx, passed |-> FALSE])
    /\ idx' = next_candidate(idx)
    /\ UNCHANGED <<heap, machines, added, pc, tmp, source_state, dest_state, self_,
                   target_state, tmp_state, tmp_self, lvl, stack, hooks, result>>

\* lines 117-118: every condition of t holds, execute goes on to _change_state
ExecutePasses ==
    /\ pc = "for"
    /\ idx <= Len(candidates)
    /\ event' = [event EXCEPT !.transition = candidates[idx]]
    /\ checked' = Append(checked, [index |-> idx, passed |-> TRUE])
    /\ pc' = "change"
    /\ UNCHANGED <<heap, machines, added, tmp, idx, source_state, dest_state, self_,
                   target_state, tmp_state, tmp_self, lvl, stack, hooks, result>>

\* line 120: return False
ReturnFalse ==
    /\ pc = "for"
    /\ idx > Len(candidates)
    /\ result' = "False"
    /\ pc' = "idle"
    /\ UNCHANGED <<heap, machines, added, event, tmp, idx, source_state, dest_state, self_,
                   target_state, tmp_state, tmp_self, lvl, stack, hooks, checked>>

\* the pointer written before exit_nested is called
ChangeStateSetsFirst ==
    /\ pc = "change"
    /\ get_state(Machine, event.transition.dest) # None
    /\ dest_state' = get_state(Machine, event.transition.dest)
    /\ source_state' = Machine.current_state
    /\ self_' = Machine.current_state
    /\ target_state' = get_state(Machine, event.transition.dest)
    /\ machines' = [machines EXCEPT ![event.machine].current_state =
                        get_state(Machine, event.transition.dest)]
    /\ hooks' = Append(hooks, Hook("set", get_state(Machine, event.transition.dest)))
    /\ pc' = "exit_nested"
    /\ UNCHANGED <<heap, added, event, tmp, idx, tmp_state, tmp_self, lvl, stack,
                   checked, result>>

\* lines 92-95: _change_state resolves the destination and calls exit_nested
ChangeState ==
    /\ pc = "change"
    /\ get_state(Machine, event.transition.dest) # None
    /\ dest_state' = get_state(Machine, event.transition.dest)
    /\ source_state' = Machine.current_state
    /\ self_' = Machine.current_state
    /\ target_state' = get_state(Machine, event.transition.dest)
    /\ pc' = "exit_nested"
    /\ UNCHANGED <<heap, machines, added, event, tmp, idx, tmp_state, tmp_self, lvl, stack,
                   hooks, checked, result>>

\* line 93: get_state raises, the destination is not a registered state
ChangeStateFails ==
    /\ pc = "change"
    /\ get_state(Machine, event.transition.dest) = None
    /\ result' = "ValueError"
    /\ pc' = "idle"
    /\ UNCHANGED <<heap, machines, added, event, tmp, idx, source_state, dest_state, self_,
                   target_state, tmp_state, tmp_self, lvl, stack, hooks, checked>>

\* line 62: target_state and target_state.level > 0 and self.level > 0
below_root(h, self, target) ==
    target # None /\ level(h, target) > 0 /\ level(h, self) > 0

\* lines 63-65: self is deeper than the target
ExitDeeper ==
    /\ pc = "exit_nested"
    /\ below_root(heap, self_, target_state)
    /\ level(heap, self_) > level(heap, target_state)
    /\ hooks' = Append(hooks, Hook("exit", self_))
    /\ self_' = heap[self_].parent
    /\ UNCHANGED <<heap, machines, added, pc, event, tmp, idx, source_state, dest_state,
                   target_state, tmp_state, tmp_self, lvl, stack, checked, result>>

\* lines 66-67
ExitAlign ==
    /\ pc = "exit_nested"
    /\ below_root(heap, self_, target_state)
    /\ level(heap, self_) <= level(heap, target_state)
    /\ tmp_state' = target_state
    /\ pc' = "align"
    /\ UNCHANGED <<heap, machines, added, event, tmp, idx, source_state, dest_state, self_,
                   target_state, tmp_self, lvl, stack, hooks, checked, result>>

\* line 69: the node the alignment loop moves tmp_state to
align_step(h, target, t) == h[target].parent

\* lines 68-69: one iteration of the alignment loop
Align ==
    /\ pc = "align"
    /\ level(heap, self_) # level(heap, tmp_state)
    /\ tmp_state' = align_step(heap, target_state, tmp_state)
    /\ UNCHANGED <<heap, machines, added, pc, event, tmp, idx, source_state, dest_state,
                   self_, target_state, tmp_self, lvl, stack, hooks, checked, result>>

\* lines 68, 70: the alignment loop ends
Aligned ==
    /\ pc = "align"
    /\ level(heap, self_) = level(heap, tmp_state)
    /\ tmp_self' = self_
    /\ pc' = "walk"
    /\ UNCHANGED <<heap, machines, added, event, tmp, idx, source_state, dest_state, self_,
                   target_state, tmp_state, lvl, stack, hooks, checked, result>>

\* the loop left out: one exit, whichever chains the two states are on
walk_stops(h, s, t) == FALSE

\* line 71: the condition of the loop that walks both chains upward
walk_on(h, s, t) ==
    level(h, s) > 0 /\ name(h, h[t].parent) # name(h, h[s].parent)

\* lines 71-74: one iteration
ExitWalk ==
    /\ pc = "walk"
    /\ walk_on(heap, tmp_self, tmp_state)
    /\ hooks' = Append(hooks, Hook("exit", tmp_self))
    /\ tmp_self' = heap[tmp_self].parent
    /\ tmp_state' = heap[tmp_state].parent
    /\ UNCHANGED <<heap, machines, added, pc, event, tmp, idx, source_state, dest_state,
                   self_, target_state, lvl, stack, checked, result>>

\* the level of the target returned instead of the level of the node exited
ExitLastTargetLevel ==
    /\ pc = "walk"
    /\ ~walk_on(heap, tmp_self, tmp_state)
    /\ hooks' = Append(hooks, Hook("exit", tmp_self))
    /\ lvl' = level(heap, target_state)
    /\ pc' = "set_state"
    /\ UNCHANGED <<heap, machines, added, event, tmp, idx, source_state, dest_state, self_,
                   target_state, tmp_state, tmp_self, stack, checked, result>>

\* lines 75-76: the last exit, and the level returned to _change_state
ExitLast ==
    /\ pc = "walk"
    /\ ~walk_on(heap, tmp_self, tmp_state)
    /\ hooks' = Append(hooks, Hook("exit", tmp_self))
    /\ lvl' = level(heap, tmp_self)
    /\ pc' = "set_state"
    /\ UNCHANGED <<heap, machines, added, event, tmp, idx, source_state, dest_state, self_,
                   target_state, tmp_state, tmp_self, stack, checked, result>>

\* lines 77-80: no target, or one side at the root level; the parent goes on
ExitUp ==
    /\ pc = "exit_nested"
    /\ ~below_root(heap, self_, target_state)
    /\ heap[self_].parent # None
    /\ hooks' = Append(hooks, Hook("exit", self_))
    /\ self_' = heap[self_].parent
    /\ target_state' = None
    /\ UNCHANGED <<heap, machines, added, pc, event, tmp, idx, source_state, dest_state,
                   tmp_state, tmp_self, lvl, stack, checked, result>>

\* lines 77-81: the root is exited and 0 is returned
ExitRoot ==
    /\ pc = "exit_nested"
    /\ ~below_root(heap, self_, target_state)
    /\ heap[self_].parent = None
    /\ hooks' = Append(hooks, Hook("exit", self_))
    /\ lvl' = 0
    /\ pc' = "set_state"
    /\ UNCHANGED <<heap, machines, added, event, tmp, idx, source_state, dest_state, self_,
                   target_state, tmp_state, tmp_self, stack, checked, result>>

\* the pointer left as it is when enter_nested is called
SetStateDeferred ==
    /\ pc = "set_state"
    /\ event' = [event EXCEPT !.state = get_state(Machine, event.transition.dest)]
    /\ hooks' = Append(hooks, Hook("set", get_state(Machine, event.transition.dest)))
    /\ stack' = <<dest_state>>
    /\ pc' = "enter_nested"
    /\ UNCHANGED <<heap, machines, added, tmp, idx, source_state, dest_state, self_,
                   target_state, tmp_state, tmp_self, lvl, checked, result>>

\* lines 96-98: set_state(self.dest), event_data.update(), enter_nested is called
SetState ==
    /\ pc = "set_state"
    /\ machines' = [machines EXCEPT ![event.machine].current_state =
                        get_state(Machine, event.transition.dest)]
    /\ event' = [event EXCEPT !.state = get_state(Machine, event.transition.dest)]
    /\ hooks' = Append(hooks, Hook("set", get_state(Machine, event.transition.dest)))
    /\ stack' = <<dest_state>>
    /\ pc' = "enter_nested"
    /\ UNCHANGED <<heap, added, tmp, idx, source_state, dest_state, self_,
                   target_state, tmp_state, tmp_self, lvl, checked, result>>

\* line 84: level is not None and level != self.level
enter_parent_first(h, self, level_) == level_ # NoLevel /\ level_ # level(h, self)

\* lines 84-85: the parent is entered first
EnterParent ==
    /\ pc = "enter_nested"
    /\ enter_parent_first(heap, stack[Len(stack)], lvl)
    /\ heap[stack[Len(stack)]].parent # None
    /\ stack' = Append(stack, heap[stack[Len(stack)]].parent)
    /\ UNCHANGED <<heap, machines, added, pc, event, tmp, idx, source_state, dest_state,
                   self_, target_state, tmp_state, tmp_self, lvl, hooks, checked,
                   result>>

\* line 85 on a state without parent: None has no enter_nested
EnterFails ==
    /\ pc = "enter_nested"
    /\ enter_parent_first(heap, stack[Len(stack)], lvl)
    /\ heap[stack[Len(stack)]].parent = None
    /\ result' = "AttributeError"
    /\ pc' = "idle"
    /\ UNCHANGED <<heap, machines, added, event, tmp, idx, source_state, dest_state, self_,
                   target_state, tmp_state, tmp_self, lvl, stack, hooks, checked>>

\* line 84 false: the recursion stops, the open frames now run line 86
EnterStop ==
    /\ pc = "enter_nested"
    /\ ~enter_parent_first(heap, stack[Len(stack)], lvl)
    /\ pc' = "enter"
    /\ UNCHANGED <<heap, machines, added, event, tmp, idx, source_state, dest_state, self_,
                   target_state, tmp_state, tmp_self, lvl, stack, hooks, checked,
                   result>>

\* line 86: self.enter(event_data) of the innermost open frame
Enter ==
    /\ pc = "enter"
    /\ Len(stack) > 0
    /\ hooks' = Append(hooks, Hook("enter", stack[Len(stack)]))
    /\ stack' = SubSeq(stack, 1, Len(stack) - 1)
    /\ UNCHANGED <<heap, machines, added, pc, event, tmp, idx, source_state, dest_state,
                   self_, target_state, tmp_state, tmp_self, lvl, checked, result>>

\* line 119: execute returned True, return True
ReturnTrue ==
    /\ pc = "enter"
    /\ Len(stack) = 0
    /\ result' = "True"
    /\ pc' = "idle"
    /\ UNCHANGED <<heap, machines, added, event, tmp, idx, source_state, dest_state, self_,
                   target_state, tmp_state, tmp_self, lvl, stack, hooks, checked>>

\* the node whose exit hook is called next, None if no exit hook is
exiting ==
    CASE pc = "exit_nested" /\ below_root(heap, self_, target_state)
            /\ level(heap, self_) <= level(heap, target_state) -> None
      [] pc = "exit_nested" -> self_
      [] pc = "walk" -> tmp_self
      [] OTHER -> None

\* lines 64, 73, 75, 77: self.exit(event_data) raises; nothing in
\* exit_nested, _change_state or trigger catches it
ExitRaises ==
    /\ exiting # None
    /\ hooks' = Append(hooks, Hook("exit_raised", exiting))
    /\ result' = "HookError"
    /\ pc' = "idle"
    /\ UNCHANGED <<heap, machines, added, event, tmp, idx, source_state, dest_state, self_,
                   target_state, tmp_state, tmp_self, lvl, stack, checked>>

\* line 86: self.enter(event_data) raises
EnterRaises ==
    /\ pc = "enter"
    /\ Len(stack) > 0
    /\ hooks' = Append(hooks, Hook("enter_raised", stack[Len(stack)]))
    /\ result' = "HookError"
    /\ pc' = "idle"
    /\ UNCHANGED <<heap, machines, added, event, tmp, idx, source_state, dest_state, self_,
                   target_state, tmp_state, tmp_self, lvl, stack, checked>>

\* the steps of a running call
Step ==
    \/ RaiseMachineError \/ Warn \/ Valid \/ For
    \/ ExecuteFails \/ ExecutePasses \/ ReturnFalse
    \/ ChangeState
    \/ ExitDeeper \/ ExitAlign \/ Align \/ Aligned \/ ExitWalk \/ ExitLast
    \/ ExitUp \/ ExitRoot
    \/ SetState \/ EnterParent \/ EnterStop \/ Enter \/ ReturnTrue

(***************************************************************************)
(* Configuration of a machine                                               *)
(***************************************************************************)
\* the keys of self.states: the names the states of machine M were
\* registered under
registered(M) == {M.states[i].key : i \in 1..Len(M.states)}

\* the number of Transition objects registered in machine M
RECURSIVE count(_)
count(seq) == IF Len(seq) = 0 THEN 0
              ELSE Len(Head(seq).val) + count(Tail(seq))

RECURSIVE n_transitions(_)
n_transitions(events) == IF Len(events) = 0 THEN 0
                         ELSE count(Head(events).val) + n_transitions(Tail(events))

\* add_transition for each element of the constructor's transitions argument
RECURSIVE add_transitions(_, _, _, _)
add_transitions(M, h, args, i) ==
    IF i > Len(args) THEN M
    ELSE Let(add_transition(M, h, args[i].trigger, args[i].source, args[i].dest,
                            args[i].conditions),
             LAMBDA M1 : add_transitions(M1, h, args, i + 1))

\* HierarchicalMachine(states=states, initial=initial, transitions=args,
\* auto_transitions=False): returns [heap, machine]
construct(h, ms, m, states, initial, args) ==
    Let(add_states(h, ms, m, states),
        LAMBDA r :
           [heap |-> r.heap,
            machine |-> add_transitions(
                            [r.machine EXCEPT
                                !.current_state = get_state(r.machine, initial)],
                            r.heap, args, 1)])

Args(trigger, source, dest, conditions) ==
    [trigger |-> trigger, source |-> source, dest |-> dest, conditions |-> conditions]

\* no call has been made yet
Idle ==
    /\ added = <<>>
    /\ pc = "idle" /\ event = NoEvent /\ tmp = None /\ idx = 0
    /\ source_state = None /\ dest_state = None /\ self_ = None
    /\ target_state = None /\ tmp_state = None /\ tmp_self = None
    /\ lvl = NoLevel /\ stack = <<>> /\ hooks = <<>> /\ checked = <<>>
    /\ result = "None"

call_vars == <<pc, event, tmp, idx, source_state, dest_state, self_, target_state,
               tmp_state, tmp_self, lvl, stack, hooks, checked, result>>

\* a configuration call made between two trigger calls: the locals, the log
\* and the result of the last trigger call are gone
Forget ==
    /\ pc' = "idle" /\ event' = NoEvent /\ tmp' = None /\ idx' = 0
    /\ source_state' = None /\ dest_state' = None /\ self_' = None
    /\ target_state' = None /\ tmp_state' = None /\ tmp_self' = None
    /\ lvl' = NoLevel /\ stack' = <<>> /\ hooks' = <<>> /\ checked' = <<>>
    /\ result' = "None"

(***************************************************************************)
(* Spec: one machine, transitions added at run time, triggers fired         *)
(***************************************************************************)
\* A{B{D}, C{E}} with E ignoring invalid triggers
TreeA == <<Composite("A", <<Composite("B", <<Str("D")>>, EmptyDict),
                            Composite("C", <<Leaf("E", TRUE, TRUE)>>, EmptyDict)>>,
                     EmptyDict)>>

Conditions == {<<>>, <<"g">>}

go == Trig("go")

jump == Trig("jump")

\* destinations of the transitions added at run time
Dests == {<<"A", "B", "D">>, <<"A">>}

\* sources of the transitions added at run time for go: a leaf and its chain
Sources == {<<"A", "B", "D">>, <<"A", "B">>, <<"A">>}

\* the initial states: the two leaves of TreeA
Initials == {<<"A", "B", "D">>, <<"A", "C", "E">>}

Init ==
    /\ \E initial \in Initials :
          LET r == construct(<<>>, [m \in {"M"} |-> NewMachine(FALSE)], "M", TreeA,
                             initial, <<>>)
          IN /\ heap = r.heap
             /\ machines = [m \in {"M"} |-> r.machine]
    /\ Idle

\* machine.add_transition(trigger, source, dest, conditions)
AddTransition(m, trigger, source, dest, conditions) ==
    /\ pc = "idle"
    /\ n_transitions(machines[m].events) < MaxTransitions
    /\ machines' = [machines EXCEPT
                        ![m] = add_transition(@, heap, trigger, source, dest, conditions)]
    /\ UNCHANGED <<heap, added>>
    /\ Forget

Next ==
    \/ \E source \in Sources, dest \in Dests, c \in Conditions :
          AddTransition("M", go, source, dest, c)
    \/ AddTransition("M", jump, <<"A", "C", "E">>, <<"A", "B">>, <<>>)
    \/ \E trigger \in {go, jump} : Trigger("M", trigger)
    \/ Step

Spec == Init /\ [][Next]_vars

(***************************************************************************)
(* SpecChange: one transition between any two states of a deep tree         *)
(***************************************************************************)
\* A{B{D{F}, E}, C{H}}, G with E ignoring invalid triggers
DeepTree == <<Composite("A", <<Composite("B", <<Composite("D", <<Str("F")>>, EmptyDict),
                                                Leaf("E", TRUE, TRUE)>>, EmptyDict),
                               Composite("C", <<Str("H")>>, EmptyDict)>>, EmptyDict),
              Str("G")>>

\* the qualified names of DeepTree
DeepNames == {<<"A">>, <<"A", "B">>, <<"A", "B", "D">>, <<"A", "B", "D", "F">>,
              <<"A", "B", "E">>, <<"A", "C">>, <<"A", "C", "H">>, <<"G">>}

InitChange ==
    /\ \E source \in DeepNames, dest \in DeepNames, c \in Conditions :
          LET r == construct(<<>>, [m \in {"M"} |-> NewMachine(FALSE)], "M", DeepTree,
                             source, <<Args(go, source, dest, c)>>)
          IN /\ heap = r.heap
             /\ machines = [m \in {"M"} |-> r.machine]
    /\ Idle

NextChange ==
    \/ Trigger("M", go)
    \/ Step

SpecChange == InitChange /\ [][NextChange]_vars

\* a call that has started goes on as long as it has a next step
FairSpecChange == SpecChange /\ WF_vars(NextChange)

(***************************************************************************)
(* SpecEmbed: machines X and Y are built, then embedded by add_states       *)
(***************************************************************************)
\* number of add_states calls made on the outer machine
MaxAddStates == 1

hop == Trig("hop")

\* the embedded machine X: flat, nested, flat with a convenience trigger, and
\* flat with two transitions for one trigger and source and a way back
XChoices ==
    {[states |-> <<Str("P"), Str("Q")>>, initial |-> <<"P">>,
      transitions |-> <<Args(go, <<"P">>, <<"Q">>, <<>>)>>],
     [states |-> <<Composite("P", <<Str("R")>>, EmptyDict), Str("Q")>>,
      initial |-> <<"Q">>,
      transitions |-> <<Args(go, <<"Q">>, <<"P", "R">>, <<>>),
                        Args(go, <<"P", "R">>, <<"Q">>, <<>>)>>],
     [states |-> <<Str("P"), Str("Q")>>, initial |-> <<"P">>,
      transitions |-> <<Args(go, <<"P">>, <<"Q">>, <<"g">>),
                        Args(ToTrig(<<"Q">>), <<"P">>, <<"Q">>, <<>>)>>],
     [states |-> <<Str("P"), Str("Q")>>, initial |-> <<"P">>,
      transitions |-> <<Args(go, <<"P">>, <<"Q">>, <<>>),
                        Args(go, <<"P">>, <<"P">>, <<>>),
                        Args(go, <<"Q">>, <<"P">>, <<>>)>>]}

\* the object id of the NestedState('K') built before the machines
K == 1

\* a remap table with one entry
Remap(child, external) == <<[key |-> child, val |-> external]>>

\* the state specifications given to add_states of the outer machine
EmbedSpecs ==
    {<<Composite("N", <<Embedded("X")>>, EmptyDict)>>,
     <<Composite("N", <<Str("a"), Embedded("X")>>, EmptyDict)>>,
     <<Composite("N", <<Embedded("X"), Str("a")>>, EmptyDict)>>,
     <<Composite("N", <<Embedded("X"), Embedded("Y")>>, EmptyDict)>>,
     <<Composite("N", <<Str("a"), Embedded("X"), Leaf("b", TRUE, TRUE)>>, EmptyDict)>>,
     <<Composite("N", <<Leaf("b", TRUE, TRUE), Built(K),
                        Composite("c", <<Str("d")>>, EmptyDict)>>, EmptyDict),
       Str("s")>>,
     <<Composite("N", <<Composite("c", <<Embedded("X")>>, Remap(<<"Q">>, <<"N", "a">>)),
                        Str("a")>>, EmptyDict)>>,
     <<Composite("N", <<Embedded("X"), Composite("c", <<Str("d")>>, EmptyDict)>>,
                 Remap(<<"Q">>, <<"N", "c", "d">>))>>,
     <<Composite("N", <<Composite("c", <<Embedded("X")>>,
                                  Remap(<<"Q">>, <<"N", "e", "f">>)),
                        Composite("e", <<Str("f")>>, EmptyDict)>>, EmptyDict)>>,
     <<Composite("N", <<Composite("c", <<Str("d"), Str("Q")>>,
                                  Remap(<<"Q">>, <<"N", "a">>)),
                        Str("a")>>, EmptyDict)>>,
     <<Composite("N", <<Embedded("X")>>, EmptyDict),
       Composite("O", <<Embedded("X")>>, EmptyDict)>>}

InitEmbed ==
    /\ \E x \in XChoices :
          LET h0 == <<NestedState(<<"K">>, FALSE, None)>>
              ms0 == [m \in {"M", "X", "Y"} |-> NewMachine(FALSE)]
              rX == construct(h0, ms0, "X", x.states, x.initial, x.transitions)
              rY == construct(rX.heap, ms0, "Y", <<Str("U"), Str("V")>>, <<"U">>,
                              <<Args(hop, <<"U">>, <<"V">>, <<>>)>>)
          IN /\ heap = rY.heap
             /\ machines = [ms0 EXCEPT !["X"] = rX.machine, !["Y"] = rY.machine]
    /\ Idle

\* machine.add_states(states); the outer machine is given states at most
\* MaxAddStates times
AddStates(m, states) ==
    /\ pc = "idle"
    /\ Len(added) < MaxAddStates
    /\ added' = Append(added, states)
    /\ LET r == add_states(heap, machines, m, states)
       IN /\ heap' = r.heap
          /\ machines' = [machines EXCEPT ![m] = r.machine]
    /\ Forget

\* machine.set_state(state), for the initial state
SetInitial(m, state) ==
    /\ pc = "idle"
    /\ machines[m].current_state = None
    /\ Has(machines[m].states, state)
    /\ machines' = [machines EXCEPT ![m].current_state = get_state(machines[m], state)]
    /\ UNCHANGED <<heap, added>>
    /\ Forget

NextEmbed ==
    \/ \E states \in EmbedSpecs : AddStates("M", states)
    \/ \E state \in registered(machines["M"]) : SetInitial("M", state)
    \/ \E m \in {"M", "X"} :
          \E trigger \in {machines[m].events[i].key : i \in 1..Len(machines[m].events)} :
              Trigger(m, trigger)
    \/ Step
    \/ ChangeStateFails

SpecEmbed == InitEmbed /\ [][NextEmbed]_vars

(***************************************************************************)
(* SpecRaise: SpecChange with exit and enter hooks that may raise           *)
(***************************************************************************)
NextRaise == NextChange \/ ExitRaises \/ EnterRaises

SpecRaise == InitChange /\ [][NextRaise]_vars

(***************************************************************************)
(* SpecStar: transitions from every state, states added before and after    *)
(***************************************************************************)
\* the states given to add_states at run time: a root and a root with a child
StarSpecs == {<<Str("S")>>, <<Composite("T", <<Str("U")>>, EmptyDict)>>}

\* the destinations of the transitions from every state
StarDests == {<<"A", "B">>, <<"A">>}

NextStar ==
    \/ \E dest \in StarDests, c \in Conditions : AddTransition("M", go, Star, dest, c)
    \/ AddTransition("M", jump, <<"A", "B">>, <<"A", "C", "E">>, <<>>)
    \/ \E states \in StarSpecs : AddStates("M", states)
    \/ \E trigger \in {go, jump} : Trigger("M", trigger)
    \/ Step

SpecStar == Init /\ [][NextStar]_vars

(***************************************************************************)
(* SpecNamespace: convenience triggers added to one machine                 *)
(***************************************************************************)
MaxTriggers == 3

\* A{B{1}, 1, _1, 2, add}
NameTree == <<Composite("A", <<Composite("B", <<Str("1")>>, EmptyDict), Str("1"),
                               Str("_1"), Str("2"), Str("add")>>, EmptyDict)>>

\* the dotted paths of the convenience triggers: one a prefix of another,
\* segments that start with a digit, and a segment named like a method
Paths == {<<"A">>, <<"A", "B">>, <<"A", "B", "1">>, <<"A", "1">>, <<"A", "_1">>,
          <<"A", "2">>, <<"A", "add">>}

InitNamespace ==
    /\ LET r == construct(<<>>, [m \in {"M"} |-> NewMachine(FALSE)], "M", NameTree,
                          <<"A">>, <<>>)
       IN /\ heap = r.heap
          /\ machines = [m \in {"M"} |-> r.machine]
    /\ Idle

\* machine.add_transition('to_' + path, source, path) for a new trigger, for
\* at most MaxTriggers triggers
AddTrigger(m, path, source) ==
    /\ pc = "idle"
    /\ Len(machines[m].events) < MaxTriggers
    /\ ~Has(machines[m].events, ToTrig(path))
    /\ machines' = [machines EXCEPT
                        ![m] = add_transition(@, heap, ToTrig(path), source, path, <<>>)]
    /\ UNCHANGED <<heap, added>>
    /\ Forget

NextNamespace == \E path \in Paths : AddTrigger("M", path, <<"A">>)

SpecNamespace == InitNamespace /\ [][NextNamespace]_vars

(***************************************************************************)
(* Properties of a state change (SpecChange, FairSpecChange)                *)
(***************************************************************************)
\* the elements of a sequence
Range(s) == {s[i] : i \in 1..Len(s)}

\* the ancestor chain of node n: n first, its parent next, the root last
RECURSIVE ancestors(_, _)
ancestors(h, n) == IF h[n].parent = None THEN <<n>>
                   ELSE <<n>> \o ancestors(h, h[n].parent)

\* the nodes that lie on the chain of s and on the chain of d
shared(h, s, d) == Range(ancestors(h, s)) \cap Range(ancestors(h, d))

\* the level L of the nearest node that the chains of s and d share
shared_level(h, s, d) ==
    CHOOSE l \in {level(h, n) : n \in shared(h, s, d)} :
        \A n \in shared(h, s, d) : level(h, n) <= l

\* s[n], s[n-1], ..., s[1]
reversed(s, n) == [i \in 1..n |-> s[n + 1 - i]]

\* the states whose hook of the given kind has fired in the call, in order
fired(kind) ==
    LET of_kind == SelectSeq(hooks, LAMBDA k : k.kind = kind)
    IN [i \in 1..Len(of_kind) |-> of_kind[i].state]

\* C1: a transition from S (level N) to D (level M) whose chains share their
\* nearest node at level L fires exactly N-L exit hooks, on the chain of S
\* from S upward, then points the machine at D, then fires exactly M-L enter
\* hooks, on the chain of D downward and ending at D.
C1_ExitsThenEnters ==
    (/\ pc = "idle" /\ result = "True"
     /\ shared(heap, source_state, dest_state) # {}) =>
        LET L == shared_level(heap, source_state, dest_state)
            N == level(heap, source_state)
            M == level(heap, dest_state)
            exits == SubSeq(ancestors(heap, source_state), 1, N - L)
            enters == reversed(ancestors(heap, dest_state), M - L)
        IN hooks = [i \in 1..(N - L) |-> Hook("exit", exits[i])]
                   \o <<Hook("set", dest_state)>>
                   \o [i \in 1..(M - L) |-> Hook("enter", enters[i])]

\* C2: no exit hook and no enter hook ever fires on a node that the chain of
\* the current state and the chain of the destination share (their common
\* ancestor and every node above it).
C2_SharedNodesUntouched ==
    source_state # None =>
        \A i \in 1..Len(hooks) :
            hooks[i].kind \in {"exit", "enter"} =>
                hooks[i].state \notin shared(heap, source_state, dest_state)

\* C3: every trigger call that has started returns control to its caller.
C3_TriggerReturns == (pc # "idle") ~> (pc = "idle")

(***************************************************************************)
(* Properties of trigger resolution (Spec)                                  *)
(***************************************************************************)
\* the state the machine was in when the call started
call_state == IF source_state # None THEN source_state ELSE event.state

\* the transitions registered for the call's trigger with node n as source
registered_on(n) ==
    IF Has(transitions, name(heap, n)) THEN Get(transitions, name(heap, n)) ELSE <<>>

\* the nodes on the chain of s that have a registration for the call's trigger
declaring(s) == {n \in Range(ancestors(heap, s)) : registered_on(n) # <<>>}

\* the declaring node nearest to s
nearest(s) ==
    CHOOSE n \in declaring(s) : \A o \in declaring(s) : level(heap, o) <= level(heap, n)

\* no exit hook and no enter hook has fired and the machine is where it was
untouched ==
    /\ fired("exit") = <<>> /\ fired("enter") = <<>> /\ fired("set") = <<>>
    /\ Machine.current_state = call_state

\* C4: the transitions used by a call are those registered on the nearest
\* node of the active leaf's chain (the leaf first) that declares the trigger.
C4_TriggerInheritance ==
    (event # NoEvent /\ declaring(call_state) # {}) =>
        /\ tmp = nearest(call_state)
        /\ event.transition # NoTransition =>
               event.transition \in Range(registered_on(nearest(call_state)))

\* a call from a leaf without a registration of its own, with its parent and
\* its grandparent both declaring the trigger, has gone through
C4_Witness ==
    /\ pc = "idle" /\ result = "True"
    /\ registered_on(call_state) = <<>>
    /\ Cardinality(declaring(call_state)) = 2
    /\ tmp = heap[call_state].parent

\* C5: a call from a leaf that does not ignore invalid triggers, with no
\* registration for the trigger on the leaf's chain, ends with MachineError.
C5_InvalidTriggerRaises ==
    (/\ pc = "idle" /\ result # "None"
     /\ declaring(call_state) = {}
     /\ ~heap[call_state].ignore) => result = "MachineError"

\* C6: a call from a leaf that ignores invalid triggers, with no registration
\* for the trigger on the leaf's chain, raises nothing, returns False, fires
\* no exit or enter hook and leaves the machine where it was.
C6_IgnoredInvalidTrigger ==
    (/\ event # NoEvent
     /\ declaring(call_state) = {}
     /\ heap[call_state].ignore) =>
        /\ untouched
        /\ checked = <<>>
        /\ pc \in {"walked", "valid", "for", "idle"}
        /\ result = IF pc = "idle" THEN "False" ELSE "None"

\* an ignored invalid call has returned
C6_Witness ==
    /\ pc = "idle" /\ result = "False"
    /\ declaring(call_state) = {}
    /\ heap[call_state].ignore
    /\ hooks = <<Hook("warning", call_state)>>

\* C7: the transitions of the matched node are tried in registration order;
\* the first whose conditions hold is the only one executed, the call then
\* returns True, and no later transition is evaluated.
C7_FirstPassingWins ==
    event # NoEvent =>
        /\ \A i \in 1..Len(checked) :
              /\ checked[i].index = i
              /\ i < Len(checked) => ~checked[i].passed
        /\ Len(checked) <= Len(registered_on(tmp))
        /\ checked # <<>> => event.transition = registered_on(tmp)[Len(checked)]
        /\ Len(fired("set")) <= 1
        /\ fired("set") # <<>> =>
              /\ checked[Len(checked)].passed
              /\ fired("set") = <<get_state(Machine, event.transition.dest)>>
        /\ (pc = "idle" /\ result = "True") =>
              /\ Len(fired("set")) = 1
              /\ Machine.current_state = get_state(Machine, event.transition.dest)
        /\ (pc = "idle" /\ checked # <<>> /\ checked[Len(checked)].passed) =>
              result = "True"
        /\ (pc = "idle" /\ result = "False") =>
              Len(checked) = Len(registered_on(tmp))

\* the first of two transitions has passed: the second was never evaluated
C7_Witness ==
    /\ pc = "idle" /\ result = "True"
    /\ Len(registered_on(tmp)) = 2
    /\ checked = <<[index |-> 1, passed |-> TRUE]>>

\* C8: when the conditions of every transition of the nearest declaring node
\* fail, the call returns False without raising, fires no exit or enter hook,
\* leaves the machine where it was, and tries no transition of a farther
\* ancestor.
C8_GuardFailure ==
    (/\ event # NoEvent
     /\ declaring(call_state) # {}
     /\ \A i \in 1..Len(checked) : ~checked[i].passed) =>
        /\ untouched
        /\ \A i \in 1..Len(checked) : checked[i].index = i
        /\ Len(checked) <= Len(registered_on(nearest(call_state)))
        /\ checked # <<>> =>
              event.transition = registered_on(nearest(call_state))[Len(checked)]
        /\ pc = "idle" =>
              /\ result = "False"
              /\ Len(checked) = Len(registered_on(nearest(call_state)))

\* the only transition of the nearest declaring node has failed, and a
\* farther ancestor has a transition without conditions for the same trigger
C8_Witness ==
    /\ pc = "idle" /\ result = "False"
    /\ checked = <<[index |-> 1, passed |-> FALSE]>>
    /\ \E n \in declaring(call_state) :
          /\ n # tmp
          /\ registered_on(n)[1].conditions = <<>>

(***************************************************************************)
(* Properties of add_states (SpecEmbed)                                     *)
(***************************************************************************)
\* the qualified names that the state specifications states[i], states[i+1],
\* ... declare below the node named prefix: a bare name and a record declare
\* prefix.name, a record with children also what its children declare, a
\* built node prefix.name, an embedded machine prefix.s for each state s it
\* has; a name of the remap table declares nothing
RECURSIVE declared(_, _, _, _)
declared(states, i, prefix, remap) ==
    IF i > Len(states) THEN {}
    ELSE LET st == states[i]
             X == machines[st.machine]
             own ==
                CASE st.kind = "str" ->
                        IF Has(remap, st.name) THEN {} ELSE {prefix \o st.name}
                  [] st.kind = "dict" ->
                        {prefix \o st.name} \cup
                        (IF st.hasChildren
                         THEN declared(st.children, 1, prefix \o st.name, st.remap)
                         ELSE {})
                  [] st.kind = "machine" ->
                        {prefix \o X.states[j].key :
                            j \in {j \in 1..Len(X.states) :
                                      ~Has(remap, <<X.states[j].key[1]>>)}}
                  [] st.kind = "node" -> {prefix \o name(heap, st.obj)}
         IN own \cup declared(states, i + 1, prefix, remap)

\* C9: after add_states every declared node is found under its qualified
\* name, and the node found has that qualified name and a level equal to its
\* nesting depth.
C9_DeclaredNodesRegistered ==
    \A k \in 1..Len(added) :
        \A q \in declared(added[k], 1, <<>>, EmptyDict) :
            /\ Has(machines["M"].states, q)
            /\ name(heap, Get(machines["M"].states, q)) = q
            /\ level(heap, Get(machines["M"].states, q)) = Len(q) - 1

\* the embeddings without remap that states[i], states[i+1], ... hold: the
\* embedded machine and the qualified name of the node it is embedded under
RECURSIVE embeddings(_, _, _, _)
embeddings(states, i, prefix, remap) ==
    IF i > Len(states) THEN {}
    ELSE LET st == states[i]
             own ==
                CASE st.kind = "machine" ->
                        IF remap = EmptyDict /\ prefix # <<>>
                        THEN {[machine |-> st.machine, parent |-> prefix]}
                        ELSE {}
                  [] st.kind = "dict" /\ st.hasChildren ->
                        embeddings(st.children, 1, prefix \o st.name, st.remap)
                  [] OTHER -> {}
         IN own \cup embeddings(states, i + 1, prefix, remap)

\* the root-level states of machine X, by name
roots(X) == {X.states[j].key : j \in {j \in 1..Len(X.states) :
                                          level(heap, X.states[j].val) = 0}}

\* C10: when machine X is embedded under node N without remap, N.s is
\* registered in the outer machine for every root-level state s of X, and a
\* call of trigger t made in N.s, X having a transition for t from s to d
\* (tried first and without conditions), ends with the machine in N.d.
C10_EmbeddedMachineWorks ==
    \A k \in 1..Len(added) :
        \A e \in embeddings(added[k], 1, <<>>, EmptyDict) :
            LET X == machines[e.machine]
                N == e.parent
            IN /\ \A s \in roots(X) : Has(machines["M"].states, N \o s)
               /\ (/\ pc = "idle" /\ result # "None"
                   /\ event.machine = "M"
                   /\ Has(X.events, event.event)) =>
                      \A s \in roots(X) :
                         (/\ name(heap, call_state) = N \o s
                          /\ Has(Get(X.events, event.event), s)
                          /\ Get(Get(X.events, event.event), s)[1].conditions = <<>>) =>
                             /\ result = "True"
                             /\ name(heap, Machine.current_state) =
                                   N \o Get(Get(X.events, event.event), s)[1].dest

\* every embedding that states[i], states[i+1], ... hold: the embedded
\* machine, the qualified name of the node it is embedded under, the remap
\* table in force, and whether the machine is the only child of the node
RECURSIVE embedded_in(_, _, _, _)
embedded_in(states, i, prefix, remap) ==
    IF i > Len(states) THEN {}
    ELSE LET st == states[i]
             own ==
                CASE st.kind = "machine" ->
                        {[machine |-> st.machine, parent |-> prefix, remap |-> remap,
                          alone |-> Len(states) = 1]}
                  [] st.kind = "dict" /\ st.hasChildren ->
                        embedded_in(st.children, 1, prefix \o st.name, st.remap)
                  [] OTHER -> {}
         IN own \cup embedded_in(states, i + 1, prefix, remap)

\* the qualified names that states[i], states[i+1], ... would declare for the
\* names of their remap tables: bare children and roots of embedded machines
RECURSIVE skipped(_, _, _, _)
skipped(states, i, prefix, remap) ==
    IF i > Len(states) THEN {}
    ELSE LET st == states[i]
             X == machines[st.machine]
             own ==
                CASE st.kind = "str" ->
                        IF Has(remap, st.name) THEN {prefix \o st.name} ELSE {}
                  [] st.kind = "dict" /\ st.hasChildren ->
                        skipped(st.children, 1, prefix \o st.name, st.remap)
                  [] st.kind = "machine" ->
                        {prefix \o X.states[j].key :
                            j \in {j \in 1..Len(X.states) : Has(remap, X.states[j].key)}}
                  [] OTHER -> {}
         IN own \cup skipped(states, i + 1, prefix, remap)

\* the transitions of machine X as [trigger, transition]
transitions_of(X) ==
    {[trigger |-> X.events[e].key, transition |-> X.events[e].val[k].val[j]] :
        <<e, k, j>> \in {x \in (1..Len(X.events)) \X (1..3) \X (1..3) :
                            /\ x[2] <= Len(X.events[x[1]].val)
                            /\ x[3] <= Len(X.events[x[1]].val[x[2]].val)}}

\* the trigger of the outer machine that stands for trigger t of a machine
\* embedded under the node named N
outer_trigger(N, t) == IF t.to THEN ToTrig(N \o t.path) ELSE t

\* the transitions the outer machine has for trigger t with source q
outer_transitions(t, q) ==
    IF Has(machines["M"].events, t) /\ Has(Get(machines["M"].events, t), q)
    THEN Get(Get(machines["M"].events, t), q) ELSE <<>>

\* some embedding under the node named N, whose remap table has no entry
\* for the destination, brought the transition of trigger t
unmapped(N, t, transition) ==
    \E o \in 1..Len(added) :
        \E e \in embedded_in(added[o], 1, <<>>, EmptyDict) :
            /\ e.parent = N /\ ~Has(e.remap, transition.dest)
            /\ \E y \in transitions_of(machines[e.machine]) :
                  /\ y.trigger = t
                  /\ y.transition.source = transition.source
                  /\ y.transition.dest = transition.dest

\* C11: with a remap entry r -> E, every transition of the embedded machine
\* whose destination is r is registered in the outer machine with the
\* destination E and, unless an embedding without that entry brought it, not
\* with the destination parent.r, and add_states creates no node parent.r, r being a bare child name or a root state of
\* the embedded machine.
C11_RemapRedirects ==
    \A k \in 1..Len(added) :
        /\ \A e \in embedded_in(added[k], 1, <<>>, EmptyDict) :
              \A x \in transitions_of(machines[e.machine]) :
                 Has(e.remap, x.transition.dest) =>
                    LET there == outer_transitions(
                                     outer_trigger(e.parent, x.trigger),
                                     e.parent \o x.transition.source)
                    IN /\ \E i \in 1..Len(there) :
                             /\ there[i].dest = Get(e.remap, x.transition.dest)
                             /\ there[i].conditions = x.transition.conditions
                       /\ \A i \in 1..Len(there) :
                             there[i].dest = e.parent \o x.transition.dest =>
                                unmapped(e.parent, x.trigger, x.transition)
        /\ \A q \in skipped(added[k], 1, <<>>, EmptyDict) :
              Has(machines["M"].states, q) =>
                 \E o \in 1..Len(added) : q \in declared(added[o], 1, <<>>, EmptyDict)

\* a call in the outer machine has taken a transition redirected by remap:
\* the machine is in the external state and no node was made for the name
C11_Witness ==
    /\ pc = "idle" /\ result = "True" /\ event.machine = "M"
    /\ \E k \in 1..Len(added) :
          \E e \in embedded_in(added[k], 1, <<>>, EmptyDict) :
             \E x \in transitions_of(machines[e.machine]) :
                /\ Has(e.remap, x.transition.dest)
                /\ event.transition.dest = Get(e.remap, x.transition.dest)
                /\ event.transition.source = e.parent \o x.transition.source
                /\ name(heap, Machine.current_state) = Get(e.remap, x.transition.dest)
                /\ ~Has(machines["M"].states, e.parent \o x.transition.dest)

(***************************************************************************)
(* Properties of add_transition with the source '*' (SpecStar)              *)
(***************************************************************************)
\* the transitions machine record M has for trigger t with source q
transitions_for(M, t, q) ==
    IF Has(M.events, t) /\ Has(Get(M.events, t), q) THEN Get(Get(M.events, t), q)
    ELSE <<>>

\* the sources machine record M has transitions for, for trigger t
sources_of(M, t) ==
    IF Has(M.events, t) THEN {q \in Range(Keys(Get(M.events, t))) : transitions_for(M, t, q) # <<>>}
    ELSE {}

\* this step is a call of add_transition for trigger t
adds_transition(t) ==
    /\ pc = "idle" /\ pc' = "idle" /\ added' = added
    /\ \E q \in sources_of(machines'["M"], t) :
          transitions_for(machines'["M"], t, q) # transitions_for(machines["M"], t, q)

\* C12: add_transition with the source '*' registers the transition for
\* exactly the qualified names registered at the time of the call, one
\* transition for each, and a later add_states adds no transition: the states
\* it registers are not sources of it.
C12_StarAtCallTime ==
    [][/\ adds_transition(go) =>
             \A q \in sources_of(machines'["M"], go) \cup registered(machines'["M"]) :
                Len(transitions_for(machines'["M"], go, q)) =
                   Len(transitions_for(machines["M"], go, q))
                      + (IF q \in registered(machines["M"]) THEN 1 ELSE 0)
       /\ added' # added =>
             /\ registered(machines["M"]) \subseteq registered(machines'["M"])
             /\ machines'["M"].events = machines["M"].events]_vars

\* a transition from every state was added, states were added afterwards,
\* and a call has taken the transition: every state that was there has it,
\* no state that came later has
C12_Witness ==
    /\ pc = "idle" /\ result = "True" /\ event.event = go
    /\ added # <<>>
    /\ \A k \in 1..Len(added) :
          \A q \in declared(added[k], 1, <<>>, EmptyDict) :
             /\ q \in registered(machines["M"])
             /\ q \notin sources_of(machines["M"], go)
    /\ \A q \in registered(machines["M"]) :
          (\A k \in 1..Len(added) : q \notin declared(added[k], 1, <<>>, EmptyDict))
             => q \in sources_of(machines["M"], go)

(***************************************************************************)
(* The current-state pointer during a call (Spec)                           *)
(***************************************************************************)
\* the positions of the log that hold a hook of the kind
positions(kind) == {i \in 1..Len(hooks) : hooks[i].kind = kind}

\* a call is running or has ended, and its record has not been dropped
in_call == pc # "idle" \/ result # "None"

\* C13: in a call that fires a transition the pointer is written once, to
\* the destination, after the last exit hook and before the first enter
\* hook: until then it designates the state the call started in, from then
\* on the destination; a call that fires no transition never writes it.
C13_PointerWrittenOnce ==
    in_call =>
       /\ Cardinality(positions("set")) <= 1
       /\ \A s \in positions("set") :
             /\ \A x \in positions("exit") : x < s
             /\ \A n \in positions("enter") : s < n
             /\ hooks[s].state = dest_state
             /\ name(heap, dest_state) = event.transition.dest
       /\ positions("set") = {} =>
             /\ Machine.current_state = call_state
             /\ positions("enter") = {}
       /\ positions("set") # {} => Machine.current_state = dest_state
       /\ (pc = "idle" /\ result = "True") => positions("set") # {}
       /\ (pc = "idle" /\ result # "True") =>
             /\ positions("set") = {}
             /\ positions("exit") = {}

\* a transition between two states with exit and enter hooks has fired, and
\* the pointer has moved from the one to the other
C13_Witness ==
    /\ pc = "idle" /\ result = "True"
    /\ positions("exit") # {} /\ positions("enter") # {}
    /\ source_state # dest_state
    /\ Machine.current_state = dest_state

(***************************************************************************)
(* The transitions an embedding brings to the outer machine (SpecEmbed)     *)
(***************************************************************************)
\* the name the rewriting rule gives name n of a machine embedded under the
\* node named N: the remapped name if n is remapped, else n below N
rewritten(N, remap, n) == IF Has(remap, n) THEN Get(remap, n) ELSE N \o n

\* the transitions the outer machine has for a transition of a machine
\* embedded under the node named N, whichever way the source was rewritten
brought(N, remap, x) ==
    UNION {Range(outer_transitions(outer_trigger(N, x.trigger), q)) :
              q \in {N \o x.transition.source, rewritten(N, remap, x.transition.source)}}

\* C14: every transition of a machine embedded with a remap table is
\* registered in the outer machine with its source and its destination
\* rewritten by the same rule, a remapped name replaced by its external name
\* and any other name put below the parent; so, for the transitions between
\* root states of the embedded machine, the source and the destination name
\* states registered in the outer machine.
C14_SourceAndDestRewritten ==
    \A k \in 1..Len(added) :
       \A e \in {e \in embedded_in(added[k], 1, <<>>, EmptyDict) : e.remap # EmptyDict} :
          \A x \in transitions_of(machines[e.machine]) :
             /\ \E t \in Range(outer_transitions(
                                  outer_trigger(e.parent, x.trigger),
                                  rewritten(e.parent, e.remap, x.transition.source))) :
                   t.dest = rewritten(e.parent, e.remap, x.transition.dest)
             /\ {x.transition.source, x.transition.dest} \subseteq roots(machines[e.machine])
                   => \A t \in brought(e.parent, e.remap, x) :
                         {t.source, t.dest} \subseteq registered(machines["M"])

\* the position of the first element of sequence s that satisfies Test, and
\* 0 if there is none
first_position(s, Test(_)) ==
    IF \E i \in 1..Len(s) : Test(s[i])
    THEN CHOOSE i \in 1..Len(s) : Test(s[i]) /\ \A j \in 1..(i - 1) : ~Test(s[j])
    ELSE 0

\* transition t of the outer machine stands for transition x of a machine
\* embedded under the node named N
image(N, remap, x, t) ==
    /\ t.source = N \o x.source
    /\ t.dest = rewritten(N, remap, x.dest)
    /\ t.conditions = x.conditions

\* C15: the order in which add_states flushes the buffered records does not
\* matter to the triggers: two transitions of the embedded machine that share
\* trigger and source keep their order, the one tried first in the embedded
\* machine is tried first in the outer machine.
C15_PriorityKept ==
    \A k \in 1..Len(added) :
       \A e \in embedded_in(added[k], 1, <<>>, EmptyDict) :
          \A t \in Range(Keys(machines[e.machine].events)) :
             \A q \in Range(Keys(Get(machines[e.machine].events, t))) :
                LET inner == Get(Get(machines[e.machine].events, t), q)
                    outer == outer_transitions(outer_trigger(e.parent, t), e.parent \o q)
                IN \A i, j \in 1..Len(inner) :
                      (i < j /\ inner[i] # inner[j]) =>
                         first_position(outer, LAMBDA o : image(e.parent, e.remap, inner[i], o))
                            <= first_position(outer, LAMBDA o : image(e.parent, e.remap, inner[j], o))

(***************************************************************************)
(* The namespace of convenience triggers (SpecNamespace)                    *)
(***************************************************************************)
\* the attribute names that model.to_<path[1]>.<path[2]>... goes through
attribute_path(path) ==
    [i \in 1..Len(path) |->
        IF i > 1 /\ isdigit(path[i]) THEN underscore(path[i]) ELSE path[i]]

\* the callable found under the dotted path, NoFunc if there is none
resolve(model, path) ==
    IF Has(model.to, attribute_path(path)) THEN Get(model.to, attribute_path(path))
    ELSE NoFunc

\* the convenience triggers whose add_transition call returned
bound_triggers(M) ==
    {t \in Range(Keys(M.events)) : t.to /\ Get(M.events, t) # EmptyDict}

\* C16: after any sequence of add_transition calls for convenience triggers
\* with pairwise distinct dotted paths, every path registered so far resolves
\* to the callable registered for it: no call removes or overwrites the
\* callable or the subtree of another path.
C16_PathsResolve ==
    \A t \in bound_triggers(machines["M"]) : resolve(machines["M"].model, t.path) = t

(***************************************************************************)
(* A hook that raises (SpecRaise)                                           *)
(***************************************************************************)
\* the last hook of the call has raised
raised(kind) ==
    /\ pc = "idle" /\ result = "HookError"
    /\ hooks[Len(hooks)].kind = kind

\* C17: a transition is not atomic. If an exit hook raises, the pointer
\* still designates the source state and no further exit hook and no enter
\* hook has run; if an enter hook raises, the pointer already designates the
\* destination and the enter hooks that have run are those of the nodes
\* above the failing node, outermost first.
C17_NotAtomic ==
    /\ raised("exit_raised") =>
          /\ Machine.current_state = source_state
          /\ hooks[Len(hooks)].state \in Range(ancestors(heap, source_state))
          /\ positions("set") = {} /\ positions("enter") = {}
          /\ \A i \in positions("exit") :
                /\ level(heap, hooks[i].state) > level(heap, hooks[Len(hooks)].state)
                /\ hooks[i].state \in Range(ancestors(heap, source_state))
    /\ raised("enter_raised") =>
          /\ Machine.current_state = dest_state
          /\ name(heap, dest_state) = event.transition.dest
          /\ positions("set") # {}
          /\ hooks[Len(hooks)].state \in Range(ancestors(heap, dest_state))
          /\ \A i \in positions("enter") :
                /\ hooks[i].state \in Range(ancestors(heap, hooks[Len(hooks)].state))
                /\ hooks[i].state # hooks[Len(hooks)].state
                /\ \A j \in positions("enter") :
                      i < j => level(heap, hooks[i].state) < level(heap, hooks[j].state)

\* the enter hook of the destination has raised after the enter hook of its
\* parent has run: the machine is in the destination, a state other than
\* the source
C17_Witness ==
    /\ raised("enter_raised")
    /\ positions("enter") # {}
    /\ hooks[Len(hooks)].state = dest_state
    /\ Machine.current_state = dest_state
    /\ source_state # dest_state

(***************************************************************************)
(* The set of entered nodes (SpecChange)                                    *)
(***************************************************************************)
\* the nodes entered and not exited after the first i hooks of the call,
\* the chain of the state the call started in being entered before it
RECURSIVE entered(_)
entered(i) ==
    IF i = 0 THEN Range(ancestors(heap, call_state))
    ELSE CASE hooks[i].kind = "exit" -> entered(i - 1) \ {hooks[i].state}
           [] hooks[i].kind = "enter" -> entered(i - 1) \cup {hooks[i].state}
           [] OTHER -> entered(i - 1)

\* C18: with the chain of the current state entered when a call starts, an
\* exit hook removing its node and an enter hook adding it, no exit hook
\* fires on a node that is not entered, no enter hook fires on a node that
\* is, and when the call returns True or False the entered nodes are the
\* chain of the current state.
C18_EnteredSetIsChain ==
    in_call =>
       /\ \A i \in positions("exit") : hooks[i].state \in entered(i - 1)
       /\ \A i \in positions("enter") : hooks[i].state \notin entered(i - 1)
       /\ (pc = "idle" /\ result \in {"True", "False"}) =>
             entered(Len(hooks)) = Range(ancestors(heap, Machine.current_state))

\* a call has moved the machine to a state on another branch, exiting and
\* entering more than one node
C18_Witness ==
    /\ pc = "idle" /\ result = "True"
    /\ Cardinality(positions("exit")) > 1 /\ Cardinality(positions("enter")) > 1
    /\ source_state \notin Range(ancestors(heap, dest_state))
    /\ dest_state \notin Range(ancestors(heap, source_state))
    /\ entered(Len(hooks)) = Range(ancestors(heap, dest_state))

(***************************************************************************)
(* The level exit_nested returns to enter_nested (SpecChange)               *)
(***************************************************************************)
\* exit_nested has returned in the running call
exited == pc \in {"set_state", "enter_nested", "enter"} \/ (pc = "idle" /\ result = "True")

\* the chain of node n from the level upward down to n, outermost first
chain_from(h, n, level_) ==
    SelectSeq(reversed(ancestors(h, n), Len(ancestors(h, n))),
              LAMBDA a : level(h, a) >= level_)

\* C19: the level c that exit_nested returns lies between 0 and the smaller
\* of the levels of source and destination; so enter_nested, which goes to
\* the parent while the level differs from c, goes to it exactly while the
\* level is greater than c, never asks a root state for its parent, and
\* fires the enter hooks of the nodes of the destination's chain at the
\* levels c up to the destination's, in that order.
C19_CutoffInRange ==
    exited =>
       /\ 0 <= lvl
       /\ lvl <= level(heap, source_state) /\ lvl <= level(heap, dest_state)
       /\ pc = "enter_nested" =>
             LET top == stack[Len(stack)]
             IN /\ enter_parent_first(heap, top, lvl) <=> level(heap, top) > lvl
                /\ enter_parent_first(heap, top, lvl) => heap[top].parent # None
       /\ (pc = "idle" /\ result = "True") =>
             fired("enter") = chain_from(heap, dest_state, lvl)

\* a call has returned whose exit_nested gave a level above 0 and below the
\* level of the destination: enter hooks have fired from that level down
C19_Witness ==
    /\ pc = "idle" /\ result = "True"
    /\ 0 < lvl /\ lvl < level(heap, dest_state)
    /\ Len(fired("enter")) > 1
    /\ fired("enter") = chain_from(heap, dest_state, lvl)

(***************************************************************************)
(* The embedded machine after the embedding (SpecEmbed)                     *)
(***************************************************************************)
\* the registered states of machine m have the names and levels they are
\* registered under
names_kept(m) ==
    \A i \in 1..Len(machines[m].states) :
        /\ name(heap, machines[m].states[i].val) = machines[m].states[i].key
        /\ level(heap, machines[m].states[i].val) = Len(machines[m].states[i].key) - 1

\* this step leaves the states, their objects, the transitions and the
\* model attributes of machine m as they are
configuration_kept(m) ==
    /\ machines'[m].states = machines[m].states
    /\ machines'[m].events = machines[m].events
    /\ machines'[m].model = machines[m].model
    /\ \A i \in 1..Len(machines[m].states) :
          heap'[machines[m].states[i].val] = heap[machines[m].states[i].val]

\* what the outer machine has of machine X under the node named N: the
\* states of X registered below N, and the transitions of X registered
\* between them
below(N, X) == {q \in registered(X) : N \o q \in registered(machines["M"])}

given(N, X) ==
    {x \in transitions_of(X) :
        \E t \in Range(outer_transitions(outer_trigger(N, x.trigger),
                                         N \o x.transition.source)) :
            /\ t.dest = N \o x.transition.dest
            /\ t.conditions = x.transition.conditions}

\* the embeddings made so far in which the machine is the only child of its
\* parent and no name is remapped
embedded_alone ==
    UNION {{e \in embedded_in(added[k], 1, <<>>, EmptyDict) :
               e.alone /\ e.remap = EmptyDict} : k \in 1..Len(added)}

\* C20: embedding a machine leaves it unchanged: its registered states keep
\* their names and levels, its root states stay at level 0, no step of the
\* outer machine changes its states, transitions or attributes, and a second
\* embedding under another parent gives what the first one gave.
C20_EmbeddedMachineUnchanged ==
    /\ [](names_kept("X") /\ names_kept("Y"))
    /\ [][configuration_kept("X") /\ configuration_kept("Y")]_vars
    /\ [](\A e1, e2 \in embedded_alone :
             e1.machine = e2.machine =>
                /\ below(e1.parent, machines[e1.machine])
                      = below(e2.parent, machines[e2.machine])
                /\ given(e1.parent, machines[e1.machine])
                      = given(e2.parent, machines[e2.machine]))

\* a machine has been embedded under two parents and has then taken a
\* transition of its own from its initial state, as it did before
C20_Witness ==
    /\ \E e1, e2 \in embedded_alone :
          /\ e1.machine = "X" /\ e2.machine = "X" /\ e1.parent # e2.parent
          /\ below(e1.parent, machines["X"]) # {}
          /\ below(e1.parent, machines["X"]) = below(e2.parent, machines["X"])
          /\ given(e1.parent, machines["X"]) # {}
          /\ given(e1.parent, machines["X"]) = given(e2.parent, machines["X"])
    /\ pc = "idle" /\ result = "True" /\ event.machine = "X"
    /\ name(heap, machines["X"].current_state) = event.transition.dest
    /\ names_kept("X")

====
